---- MODULE Spec2Model ----
(***************************************************************************)
(* Air hockey: the two servers of the repository and the browser client    *)
(* that simulates the puck for the second one.                             *)
(*                                                                         *)
(*   variant "A"  src/unnamed/part_001: the server owns the physics        *)
(*                (rooms keyed by side, 60 Hz tick, state snapshots).      *)
(*   variant "B"  src/unnamed/part_002 + src/client/main.js 1-398: the     *)
(*                server relays, the client of player 1 simulates.         *)
(*                                                                         *)
(* A behaviour runs one of the two programs; `variant` says which.         *)
(*                                                                         *)
(* Numbers.  Lengths and velocities are JavaScript doubles in the source.  *)
(* Here they are fixed-point integers, Unit steps per pixel; products with *)
(* a fractional coefficient are truncated toward zero (Scaled).            *)
(* Comparisons against table bounds, radii and goal lines are exact.       *)
(***************************************************************************)
EXTENDS Integers, Sequences, FiniteSets, TLC

(***************************************************************************)
(* Bounds of the model.                                                    *)
(***************************************************************************)
MaxConns == 3    \* sockets that ever connect
MaxRooms == 2    \* distinct truthy room ids clients ask for
MaxSteps == 5    \* events (messages, ticks, frames, deliveries) of a session run
PlaySteps == 8   \* events of a play run (two sockets, one room id)
EdgeSteps == 6   \* events of an edge run (two sockets, malformed requests)
SceneSteps == 2  \* ticks / frames run from a scene of a game in progress
FlashSteps == 54  \* events of a long run (a goal and the expiry of its flash)

Unit == 10 * 10  \* fixed-point steps per pixel

Conns == 1 .. MaxConns
\* Room ids a client may send.  0 stands for a falsy id (undefined, "").
NoRoom == 0
RoomIds == 1 .. MaxRooms

(***************************************************************************)
(* JavaScript values that arrive in message payloads.                      *)
(*   num   a finite number (fixed-point)                                   *)
(*   inf   +Infinity (v = 1) or -Infinity (v = -1); JSON text such as      *)
(*         1e999 parses to it, and typeof gives 'number'                   *)
(*   undef a missing field                                                 *)
(*   str   a string                                                        *)
(*   null  null; as a whole payload, also what stands where an object      *)
(*         with fields is expected                                         *)
(* NaN does not occur: the transport is JSON, which cannot carry it.       *)
(***************************************************************************)
Num(n) == [t |-> "num", v |-> n]
PosInf == [t |-> "inf", v |-> 1]
NegInf == [t |-> "inf", v |-> -1]
Undef == [t |-> "undef", v |-> 0]
Str == [t |-> "str", v |-> 0]
Null == [t |-> "null", v |-> 0]

\* A payload with fields to read, as opposed to null.
IsObject(payload) == "t" \notin DOMAIN payload

\* typeof x === 'number'
IsNumber(x) == x.t \in {"num", "inf"}

Min(a, b) == IF a <= b THEN a ELSE b
Max(a, b) == IF a >= b THEN a ELSE b
Abs(a) == IF a >= 0 THEN a ELSE -a
Sign(a) == IF a > 0 THEN 1 ELSE IF a < 0 THEN -1 ELSE 0

\* a * num / den, truncated toward zero
Scaled(a, num, den) == IF a >= 0 THEN (a * num) \div den ELSE -(((-a) * num) \div den)

\* Math.sqrt, rounded down (Newton iteration from above)
RECURSIVE SqrtIter(_, _)
SqrtIter(n, x) ==
  LET y == (x + n \div x) \div 2
  IN IF y >= x THEN x ELSE SqrtIter(n, y)
Sqrt(n) == IF n <= 0 THEN 0 ELSE SqrtIter(n, n)

\* The empty object {} / the empty Map.
Empty == [k \in {} |-> 0]
Put(f, k, v) == [j \in DOMAIN f \cup {k} |-> IF j = k THEN v ELSE f[j]]
Delete(f, k) == [j \in DOMAIN f \ {k} |-> f[j]]

(***************************************************************************)
(* Variant A: constants of src/unnamed/part_001, lengths in pixels.        *)
(***************************************************************************)
TICK_RATE == 16
TABLE_WIDTH == 960
TABLE_HEIGHT == 540
CENTER_X == (TABLE_WIDTH * Unit) \div 2
CENTER_Y == (TABLE_HEIGHT * Unit) \div 2
PADDLE_RADIUS == 40
PUCK_RADIUS == 18
\* 6.5 pixels per tick, in fixed-point steps
PUCK_START_SPEED == 650
\* 0.993, in thousandths
PUCK_FRICTION == 993
\* goalFlash lifetime in ms
GOAL_FLASH_MS == 800

VARIABLES
  variant,   \* "A" or "B": which server program runs
  sockets,   \* per socket: connected, the socket.io rooms joined, socket.data
  rooms,     \* the room registry (a Map): room id -> room
  now,       \* Date.now(), ms since the server started
  op,        \* the event handled last: [name, conn, roomId]
  emitted,   \* the messages that handler emitted: [ev, payload, to]
  clients,   \* variant B: the browser state of each socket's client
  inbox,     \* variant B: server->client messages in flight, per socket
  steps      \* events handled so far

vars == <<variant, sockets, rooms, now, op, emitted, clients, inbox, steps>>

Op(name, c, roomId) == [name |-> name, conn |-> c, roomId |-> roomId]

\* Every action is one event; a run handles at most T of them.  A handler
\* that throws ends the process (nothing catches the exception): the event
\* is recorded as "crashed", and the state is kept as the process left it.
Step(T) == op.name # "crashed" /\ steps < T /\ steps' = steps + 1

\* A socket before it joins anything; also what is left of one that closed.
NewSocket(connected) ==
  [connected |-> connected, joined |-> {}, roomId |-> NoRoom, side |-> "none",
   playerNumber |-> 0]

Msg(to, ev, payload) == [ev |-> ev, payload |-> payload, to |-> to]
NoPayload == [none |-> TRUE]

\* The sockets that socket.io delivers a broadcast to room `roomId` to.
InRoom(roomId) == {d \in Conns : sockets[d].connected /\ roomId \in sockets[d].joined}

(***************************************************************************)
(* Variant A: room state and snapshots.                                    *)
(***************************************************************************)

\* Math.random() * 2 pi, as the (cos, sin) pairs the model draws, in thousandths.
Angles == {[c |-> 1000, s |-> 0], [c |-> -1000, s |-> 0], [c |-> 600, s |-> -800]}

\* lastScorer is "left", "right" or "none" (undefined).
spawnPuck(lastScorer, angle) ==
  LET speed == PUCK_START_SPEED
      direction == IF lastScorer = "left" THEN 1
                   ELSE IF lastScorer = "right" THEN -1
                   ELSE IF Sign(angle.c) # 0 THEN Sign(angle.c) ELSE 1
  IN [x |-> CENTER_X,
      y |-> CENTER_Y,
      vx |-> Scaled(Abs(angle.c) * speed, 1, 1000) * direction,
      vy |-> Scaled(angle.s * speed, 1, 1000)]

NoFlash == [side |-> "none", until |-> 0]

\* The room object createRoom builds (rooms.set is done by the caller here).
createRoom(roomId, angle) ==
  [id |-> roomId,
   players |-> Empty,
   puck |-> spawnPuck("none", angle),
   scores |-> [left |-> 0, right |-> 0],
   goalFlash |-> NoFlash]

clamp(value, min, max) == Max(min, Min(max, value))

\* clamp applied to a payload value for which typeof is 'number'.
clampJS(x, min, max) ==
  IF x.t = "inf" THEN (IF x.v > 0 THEN max ELSE min) ELSE clamp(x.v, min, max)

MinX(side) == IF side = "left" THEN PADDLE_RADIUS * Unit ELSE CENTER_X + PADDLE_RADIUS * Unit
MaxX(side) == IF side = "left" THEN CENTER_X - PADDLE_RADIUS * Unit
              ELSE (TABLE_WIDTH - PADDLE_RADIUS) * Unit
MinY == PADDLE_RADIUS * Unit
MaxY == (TABLE_HEIGHT - PADDLE_RADIUS) * Unit

serializePaddle(paddle) == [x |-> paddle.x, y |-> paddle.y, vx |-> paddle.vx, vy |-> paddle.vy]

\* buildState still showing the flash at the instant it expires: what C23
\* must not survive.
buildStateLate(room, time) ==
  [width |-> TABLE_WIDTH,
   height |-> TABLE_HEIGHT,
   paddles |-> [s \in DOMAIN room.players |-> serializePaddle(room.players[s])],
   puck |-> room.puck,
   scores |-> room.scores,
   waitingFor |-> 2 - Cardinality(DOMAIN room.players),
   goalFlash |-> IF room.goalFlash.side # "none" /\ room.goalFlash.until >= time
                 THEN room.goalFlash.side ELSE "none"]

buildState(room, time) ==
  [width |-> TABLE_WIDTH,
   height |-> TABLE_HEIGHT,
   paddles |-> [s \in DOMAIN room.players |-> serializePaddle(room.players[s])],
   puck |-> room.puck,
   scores |-> room.scores,
   waitingFor |-> 2 - Cardinality(DOMAIN room.players),
   goalFlash |-> IF room.goalFlash.side # "none" /\ room.goalFlash.until > time
                 THEN room.goalFlash.side ELSE "none"]

(***************************************************************************)
(* Variant A: the socket handlers.                                         *)
(***************************************************************************)

\* room.players.left && room.players.right
Full(room) == "left" \in DOMAIN room.players /\ "right" \in DOMAIN room.players

\* FreeSide with the sides exchanged: what C1 must not survive.
FreeSideSwapped(room) == IF "right" \in DOMAIN room.players THEN "left" ELSE "right"

\* room.players.left ? 'right' : 'left', the side a joiner gets
FreeSide(room) == IF "left" \in DOMAIN room.players THEN "right" ELSE "left"

\* join-room with payload { roomId }; `angle` is spawnPuck's random draw,
\* used when the room is created.
JoinRoomA(c, roomId, angle, T) ==
  /\ variant = "A"
  /\ Step(T)
  /\ sockets[c].connected
  /\ op' = Op("join-room", c, roomId)
  /\ IF roomId = NoRoom
     THEN /\ emitted' = {Msg(c, "error-message", NoPayload)}
          /\ UNCHANGED <<sockets, rooms>>
     ELSE LET room == IF roomId \in DOMAIN rooms THEN rooms[roomId]
                      ELSE createRoom(roomId, angle)
          IN IF Full(room)
             THEN /\ emitted' = {Msg(c, "room-full", NoPayload)}
                  /\ rooms' = Put(rooms, roomId, room)
                  /\ UNCHANGED sockets
             ELSE LET side == FreeSide(room)
                      startX == IF side = "left" THEN PADDLE_RADIUS * 2 * Unit
                                ELSE (TABLE_WIDTH - PADDLE_RADIUS * 2) * Unit
                      paddle == [id |-> c, x |-> startX, y |-> CENTER_Y, vx |-> 0, vy |-> 0]
                      joined == [room EXCEPT !.players = Put(room.players, side, paddle)]
                  IN /\ rooms' = Put(rooms, roomId, joined)
                     /\ sockets' = [sockets EXCEPT ![c].joined = @ \cup {roomId},
                                                   ![c].roomId = roomId,
                                                   ![c].side = side]
                     /\ emitted' =
                          {Msg(c, "joined", [side |-> side, state |-> buildState(joined, now)])}
                          \cup {Msg(d, "player-joined", [side |-> side]) :
                                  d \in InRoom(roomId) \ {c}}
  /\ UNCHANGED <<variant, now, clients, inbox>>

\* The paddle-update handler gets as far as reading the payload's fields.
ReadsPayloadA(c) ==
  /\ sockets[c].roomId # NoRoom /\ sockets[c].side # "none"
  /\ sockets[c].roomId \in DOMAIN rooms
  /\ sockets[c].side \in DOMAIN rooms[sockets[c].roomId].players

\* paddle-update; the payload is an object whose fields x, y, vx, vy are
\* JavaScript values (a missing payload defaults to {}), or null, which the
\* destructuring assignment throws on.
\* (paddle.lastUpdate is written here and read nowhere: it is left out.)
PaddleUpdateA(c, payload, T) ==
  /\ variant = "A"
  /\ Step(T)
  /\ sockets[c].connected
  /\ op' = Op(IF ReadsPayloadA(c) /\ ~IsObject(payload) THEN "crashed" ELSE "paddle-update",
              c, sockets[c].roomId)
  /\ emitted' = {}
  /\ LET roomId == sockets[c].roomId
         side == sockets[c].side
     IN IF roomId = NoRoom \/ side = "none" THEN UNCHANGED rooms
        ELSE IF roomId \notin DOMAIN rooms THEN UNCHANGED rooms
        ELSE IF side \notin DOMAIN rooms[roomId].players THEN UNCHANGED rooms
        ELSE IF ~IsObject(payload) THEN UNCHANGED rooms
        ELSE LET paddle == rooms[roomId].players[side]
                 moved ==
                   [id |-> paddle.id,
                    x |-> IF IsNumber(payload.x)
                          THEN clampJS(payload.x, MinX(side), MaxX(side)) ELSE paddle.x,
                    y |-> IF IsNumber(payload.y)
                          THEN clampJS(payload.y, MinY, MaxY) ELSE paddle.y,
                    vx |-> IF IsNumber(payload.vx) THEN payload.vx.v ELSE paddle.vx,
                    vy |-> IF IsNumber(payload.vy) THEN payload.vy.v ELSE paddle.vy]
             IN rooms' = [rooms EXCEPT ![roomId].players[side] = moved]
  /\ UNCHANGED <<variant, sockets, now, clients, inbox>>

\* DisconnectA emptying the registry when the room is retired: what C25
\* must not survive.
DisconnectAClearing(c, T) ==
  /\ variant = "A"
  /\ Step(T)
  /\ sockets[c].connected
  /\ op' = Op("disconnect", c, sockets[c].roomId)
  /\ sockets' = [sockets EXCEPT ![c] = NewSocket(FALSE)]
  /\ LET roomId == sockets[c].roomId
         side == sockets[c].side
     IN IF roomId = NoRoom \/ side = "none"
        THEN /\ emitted' = {}
             /\ UNCHANGED rooms
        ELSE IF roomId \notin DOMAIN rooms
        THEN /\ emitted' = {}
             /\ UNCHANGED rooms
        ELSE LET left == [rooms[roomId] EXCEPT !.players = Delete(@, side)]
             IN /\ emitted' = {Msg(d, "player-left", [side |-> side]) :
                                 d \in InRoom(roomId) \ {c}}
                /\ rooms' = IF DOMAIN left.players = {}
                            THEN Empty
                            ELSE Put(rooms, roomId, left)
  /\ UNCHANGED <<variant, now, clients, inbox>>

\* disconnect: socket.io has the socket leave its rooms; then the handler runs.
\* The closed socket's object is garbage afterwards: its data is cleared.
DisconnectA(c, T) ==
  /\ variant = "A"
  /\ Step(T)
  /\ sockets[c].connected
  /\ op' = Op("disconnect", c, sockets[c].roomId)
  /\ sockets' = [sockets EXCEPT ![c] = NewSocket(FALSE)]
  /\ LET roomId == sockets[c].roomId
         side == sockets[c].side
     IN IF roomId = NoRoom \/ side = "none"
        THEN /\ emitted' = {}
             /\ UNCHANGED rooms
        ELSE IF roomId \notin DOMAIN rooms
        THEN /\ emitted' = {}
             /\ UNCHANGED rooms
        ELSE LET left == [rooms[roomId] EXCEPT !.players = Delete(@, side)]
             IN /\ emitted' = {Msg(d, "player-left", [side |-> side]) :
                                 d \in InRoom(roomId) \ {c}}
                /\ rooms' = IF DOMAIN left.players = {}
                            THEN Delete(rooms, roomId)
                            ELSE Put(rooms, roomId, left)
  /\ UNCHANGED <<variant, now, clients, inbox>>

(***************************************************************************)
(* Variant A: the simulation step.                                         *)
(***************************************************************************)

handlePaddle(paddle, side) ==
  [id |-> paddle.id,
   x |-> clamp(paddle.x, MinX(side), MaxX(side)),
   y |-> clamp(paddle.y, MinY, MaxY),
   vx |-> Scaled(paddle.vx, 9, 10),
   vy |-> Scaled(paddle.vy, 9, 10)]

\* collideWithPaddle pushing the puck out by half the overlap only: what C20
\* must not survive.
collideWithPaddleHalfway(puck, paddle) ==
  LET dx == puck.x - paddle.x
      dy == puck.y - paddle.y
      combined == (PUCK_RADIUS + PADDLE_RADIUS) * Unit
  IN IF Abs(dx) >= combined \/ Abs(dy) >= combined THEN puck
     ELSE LET distSq == dx * dx + dy * dy
          IN IF distSq >= combined * combined \/ distSq = 0 THEN puck
             ELSE LET dist == Sqrt(distSq)
                      nx == Scaled(dx, 1000, dist)
                      ny == Scaled(dy, 1000, dist)
                      overlap == (combined - dist) \div 2
                  IN [puck EXCEPT !.x = puck.x + Scaled(nx * overlap, 1, 1000),
                                  !.y = puck.y + Scaled(ny * overlap, 1, 1000)]

\* The unit normal is kept in thousandths.
collideWithPaddle(puck, paddle) ==
  LET dx == puck.x - paddle.x
      dy == puck.y - paddle.y
      combined == (PUCK_RADIUS + PADDLE_RADIUS) * Unit
  IN \* |dx| or |dy| >= combined implies distSq >= combined * combined
     IF Abs(dx) >= combined \/ Abs(dy) >= combined THEN puck
     ELSE LET distSq == dx * dx + dy * dy
          IN IF distSq >= combined * combined \/ distSq = 0 THEN puck
             ELSE LET dist == Sqrt(distSq)
                      nx == Scaled(dx, 1000, dist)
                      ny == Scaled(dy, 1000, dist)
                      relativeSpeed == Scaled(puck.vx * nx + puck.vy * ny, 1, 1000)
                      vx1 == IF relativeSpeed < 0
                             THEN puck.vx - Scaled(2 * relativeSpeed * nx, 1, 1000)
                             ELSE puck.vx
                      vy1 == IF relativeSpeed < 0
                             THEN puck.vy - Scaled(2 * relativeSpeed * ny, 1, 1000)
                             ELSE puck.vy
                      overlap == combined - dist
                  IN [x |-> puck.x + Scaled(nx * overlap, 1, 1000),
                      y |-> puck.y + Scaled(ny * overlap, 1, 1000),
                      vx |-> vx1 + Scaled(paddle.vx, 55, 100),
                      vy |-> vy1 + Scaled(paddle.vy, 55, 100)]

scoreGoal(room, scorer, time, angle) ==
  [room EXCEPT !.scores[scorer] = @ + 1,
               !.goalFlash = [side |-> scorer, until |-> time + GOAL_FLASH_MS],
               !.puck = spawnPuck(scorer, angle)]

\* The puck after integration, friction and the wall bounce.
MovePuck(puck) ==
  LET x == puck.x + puck.vx
      y == puck.y + puck.vy
      vx == Scaled(puck.vx, PUCK_FRICTION, 1000)
      vy == Scaled(puck.vy, PUCK_FRICTION, 1000)
  IN IF y <= PUCK_RADIUS * Unit
     THEN [x |-> x, y |-> PUCK_RADIUS * Unit, vx |-> vx, vy |-> Abs(vy)]
     ELSE IF y >= (TABLE_HEIGHT - PUCK_RADIUS) * Unit
     THEN [x |-> x, y |-> (TABLE_HEIGHT - PUCK_RADIUS) * Unit, vx |-> vx, vy |-> -Abs(vy)]
     ELSE [x |-> x, y |-> y, vx |-> vx, vy |-> vy]

\* The room after the paddle pass and the two collision checks, before the
\* goal check.
Collided(room) ==
  LET players == [s \in DOMAIN room.players |-> handlePaddle(room.players[s], s)]
      p0 == MovePuck(room.puck)
      p1 == IF "left" \in DOMAIN players THEN collideWithPaddle(p0, players.left) ELSE p0
      p2 == IF "right" \in DOMAIN players THEN collideWithPaddle(p1, players.right) ELSE p1
  IN [room EXCEPT !.players = players, !.puck = p2]

\* GoalOf with the scorers exchanged: what C8 must not survive.
GoalOfSwapped(room) ==
  LET puck == Collided(room).puck
  IN IF puck.x <= -(PUCK_RADIUS * Unit) THEN "left"
     ELSE IF puck.x >= (TABLE_WIDTH + PUCK_RADIUS) * Unit THEN "right"
     ELSE "none"

\* The scorer updateRoom finds for the room, or "none".
GoalOf(room) ==
  LET puck == Collided(room).puck
  IN IF puck.x <= -(PUCK_RADIUS * Unit) THEN "right"
     ELSE IF puck.x >= (TABLE_WIDTH + PUCK_RADIUS) * Unit THEN "left"
     ELSE "none"

updateRoom(room, time, angle) ==
  IF GoalOf(room) = "none" THEN Collided(room)
  ELSE scoreGoal(Collided(room), GoalOf(room), time, angle)

\* Tick broadcasting each room as it was before its step: what C18 must
\* not survive.
TickStale(G, T) ==
  /\ variant = "A"
  /\ Step(T)
  /\ now' = now + TICK_RATE
  /\ op' = Op("tick", 0, NoRoom)
  /\ \E angle \in [{r \in DOMAIN rooms : GoalOf(rooms[r]) # "none"} -> G] :
       /\ rooms' = [r \in DOMAIN rooms |->
                      updateRoom(rooms[r], now',
                                 IF r \in DOMAIN angle THEN angle[r]
                                 ELSE CHOOSE a \in G : TRUE)]
       /\ emitted' = UNION {{Msg(d, "state", buildState(rooms[r], now')) : d \in InRoom(r)} :
                              r \in DOMAIN rooms}
  /\ UNCHANGED <<variant, sockets, clients, inbox>>

\* One firing of the setInterval callback: every room is stepped, then its
\* snapshot goes to the sockets in its socket.io room.
Tick(G, T) ==
  /\ variant = "A"
  /\ Step(T)
  /\ now' = now + TICK_RATE
  /\ op' = Op("tick", 0, NoRoom)
  /\ \E angle \in [{r \in DOMAIN rooms : GoalOf(rooms[r]) # "none"} -> G] :
       /\ rooms' = [r \in DOMAIN rooms |->
                      updateRoom(rooms[r], now',
                                 IF r \in DOMAIN angle THEN angle[r]
                                 ELSE CHOOSE a \in G : TRUE)]
       /\ emitted' = UNION {{Msg(d, "state", buildState(rooms'[r], now')) : d \in InRoom(r)} :
                              r \in DOMAIN rooms}
  /\ UNCHANGED <<variant, sockets, clients, inbox>>

(***************************************************************************)
(* What clients send in the model.                                         *)
(***************************************************************************)

Payload(x, y, vx, vy) == [x |-> x, y |-> y, vx |-> vx, vy |-> vy]

\* paddle-update payloads (variant A) of the session runs: a position far
\* outside the table, the other fields missing.
SessionPayloadsA == {Payload(Num(1000 * Unit), Undef, Undef, Undef)}
SessionAngles == {[c |-> 1000, s |-> 0]}

\* paddle-update payloads (variant A) of the play runs: far right with a hard
\* push to the right, far left with a hard push to the left (vy missing),
\* and infinities with a string.
PlayPayloadsA ==
  {Payload(Num(1000 * Unit), Num(CENTER_Y), Num(4000 * Unit), Num(0)),
   Payload(Num(-50 * Unit), Num(CENTER_Y), Num(-4000 * Unit), Undef),
   Payload(PosInf, NegInf, Undef, Str)}

(***************************************************************************)
(* Variant B: constants of src/unnamed/part_002 and src/client/main.js.    *)
(***************************************************************************)
GAME_WIDTH == 800
GAME_HEIGHT == 400
PUCK_RADIUS_B == 15
PADDLE_RADIUS_B == 25
\* 0.99, in hundredths
FRICTION == 99
MAX_SPEED == 8
PADDLE_SPEED == 5

PlayerKey(n) == IF n = 1 THEN "player1" ELSE "player2"

\* (Math.random() - 0.5) * 4 twice: the velocity pairs the model draws.
Rand(vx, vy) == [vx |-> vx, vy |-> vy]
SessionRands == {Rand(150, -100)}
PlayRands == {Rand(-199, 0)}

CentrePuck(rand) ==
  [x |-> (GAME_WIDTH * Unit) \div 2, y |-> (GAME_HEIGHT * Unit) \div 2,
   vx |-> rand.vx, vy |-> rand.vy]

\* Paddle coordinates are stored as they arrive (JavaScript values).
createGameState(rand) ==
  [puck |-> CentrePuck(rand),
   players |-> [player1 |-> [x |-> Num(100 * Unit), y |-> Num((GAME_HEIGHT * Unit) \div 2)],
                player2 |-> [x |-> Num((GAME_WIDTH - 100) * Unit),
                             y |-> Num((GAME_HEIGHT * Unit) \div 2)]],
   scores |-> [player1 |-> 0, player2 |-> 0]]

\* The server side of a step: the registry, the messages in flight and the
\* messages emitted so far in this step.
Server == [rooms |-> rooms, inbox |-> inbox, emitted |-> {}, crashed |-> FALSE]

\* emit `ev` to the sockets `to`
Send(st, to, ev, payload) ==
  [st EXCEPT !.inbox = [d \in Conns |-> IF d \in to
                                        THEN Append(st.inbox[d], [ev |-> ev, payload |-> payload])
                                        ELSE st.inbox[d]],
             !.emitted = st.emitted \cup {Msg(d, ev, payload) : d \in to}]

\* paddleMove without its first line (if (!socket.roomId) return): what C12
\* must not survive.
paddleMoveUnchecked(st, c, data) ==
  LET roomId == sockets[c].roomId
  IN IF roomId \notin DOMAIN st.rooms THEN st
     ELSE IF ~IsObject(data) THEN [st EXCEPT !.crashed = TRUE]
     ELSE LET playerKey == PlayerKey(sockets[c].playerNumber)
              moved == [st EXCEPT !.rooms[roomId].gameState.players[playerKey] =
                                     [x |-> data.x, y |-> data.y]]
          IN Send(moved, InRoom(roomId) \ {c}, "opponent-move",
                  [playerNumber |-> sockets[c].playerNumber, x |-> data.x, y |-> data.y])

\* paddle-move with payload data = {x, y}; reading data.x of a null or
\* missing payload throws.
paddleMove(st, c, data) ==
  LET roomId == sockets[c].roomId
  IN IF roomId = NoRoom THEN st
     ELSE IF roomId \notin DOMAIN st.rooms THEN st
     ELSE IF ~IsObject(data) THEN [st EXCEPT !.crashed = TRUE]
     ELSE LET playerKey == PlayerKey(sockets[c].playerNumber)
              moved == [st EXCEPT !.rooms[roomId].gameState.players[playerKey] =
                                     [x |-> data.x, y |-> data.y]]
          IN Send(moved, InRoom(roomId) \ {c}, "opponent-move",
                  [playerNumber |-> sockets[c].playerNumber, x |-> data.x, y |-> data.y])

\* puck-update with payload puckData
puckUpdate(st, c, puckData) ==
  LET roomId == sockets[c].roomId
  IN IF roomId = NoRoom THEN st
     ELSE IF roomId \notin DOMAIN st.rooms THEN st
     ELSE Send([st EXCEPT !.rooms[roomId].gameState.puck = puckData],
               InRoom(roomId), "puck-sync", puckData)

\* goal-scored with payload {scorer}; `rand` is the respawn's random draw.
goalScored(st, c, scorer, rand) ==
  LET roomId == sockets[c].roomId
  IN IF roomId = NoRoom THEN st
     ELSE IF roomId \notin DOMAIN st.rooms THEN st
     ELSE LET scored == [st EXCEPT !.rooms[roomId].gameState.scores[scorer] = @ + 1,
                                   !.rooms[roomId].gameState.puck = CentrePuck(rand)]
          IN Send(scored, InRoom(roomId), "goal",
                  [scorer |-> scorer,
                   scores |-> scored.rooms[roomId].gameState.scores,
                   puck |-> scored.rooms[roomId].gameState.puck])

Commit(st) == rooms' = st.rooms /\ inbox' = st.inbox /\ emitted' = st.emitted

\* FullB off by one: what C9 must not survive.
FullAboveTwo(room) == Len(room.players) > 2

\* room.players.length >= 2
FullB(room) == Len(room.players) >= 2

\* join-room with payload roomId; a falsy id is a Map key like any other.
JoinRoomB(c, roomId, rand, T) ==
  /\ variant = "B"
  /\ Step(T)
  /\ sockets[c].connected
  /\ op' = Op("join-room", c, roomId)
  /\ LET room == IF roomId \in DOMAIN rooms THEN rooms[roomId]
                 ELSE [players |-> <<>>, gameState |-> createGameState(rand)]
         created == [Server EXCEPT !.rooms = Put(rooms, roomId, room)]
     IN IF FullB(room)
        THEN /\ Commit(Send(created, {c}, "room-full", NoPayload))
             /\ UNCHANGED sockets
        ELSE LET playerNumber == IF Len(room.players) = 0 THEN 1 ELSE 2
                 joined == [room EXCEPT !.players =
                              Append(@, [id |-> c, playerNumber |-> playerNumber])]
                 st1 == Send([created EXCEPT !.rooms[roomId] = joined], {c}, "player-assigned",
                             [playerNumber |-> playerNumber, gameState |-> joined.gameState])
                 members == InRoom(roomId) \cup {c}
             IN /\ sockets' = [sockets EXCEPT ![c].joined = @ \cup {roomId},
                                              ![c].roomId = roomId,
                                              ![c].playerNumber = playerNumber]
                /\ Commit(IF Len(joined.players) = 2
                          THEN Send(st1, members, "game-start", joined.gameState)
                          ELSE st1)
  /\ UNCHANGED <<variant, now, clients>>

\* A paddle-move message from any client program.
PaddleMoveB(c, data, T) ==
  /\ variant = "B"
  /\ Step(T)
  /\ sockets[c].connected
  /\ op' = Op(IF paddleMove(Server, c, data).crashed THEN "crashed" ELSE "paddle-move",
              c, sockets[c].roomId)
  /\ Commit(paddleMove(Server, c, data))
  /\ UNCHANGED <<variant, sockets, now, clients>>

\* A puck-update message from any client program.
PuckUpdateB(c, puckData, T) ==
  /\ variant = "B"
  /\ Step(T)
  /\ sockets[c].connected
  /\ op' = Op("puck-update", c, sockets[c].roomId)
  /\ Commit(puckUpdate(Server, c, puckData))
  /\ UNCHANGED <<variant, sockets, now, clients>>

\* A goal-scored message from any client program.
GoalScoredB(c, scorer, rand, T) ==
  /\ variant = "B"
  /\ Step(T)
  /\ sockets[c].connected
  /\ op' = Op("goal-scored", c, sockets[c].roomId)
  /\ Commit(goalScored(Server, c, scorer, rand))
  /\ UNCHANGED <<variant, sockets, now, clients>>

NewClient ==
  [myPlayerNumber |-> 0,
   gameStarted |-> FALSE,
   puck |-> [x |-> (GAME_WIDTH * Unit) \div 2, y |-> (GAME_HEIGHT * Unit) \div 2,
             vx |-> 0, vy |-> 0],
   myPaddle |-> [x |-> 100 * Unit, y |-> (GAME_HEIGHT * Unit) \div 2],
   opponentPaddle |-> [x |-> Num((GAME_WIDTH - 100) * Unit),
                       y |-> Num((GAME_HEIGHT * Unit) \div 2)],
   opponentTarget |-> [x |-> Num((GAME_WIDTH - 100) * Unit),
                       y |-> Num((GAME_HEIGHT * Unit) \div 2)]]

\* disconnect: the page is gone with its socket, and so is what was in
\* flight to it.
DisconnectB(c, T) ==
  /\ variant = "B"
  /\ Step(T)
  /\ sockets[c].connected
  /\ op' = Op("disconnect", c, sockets[c].roomId)
  /\ sockets' = [sockets EXCEPT ![c] = NewSocket(FALSE)]
  /\ clients' = [clients EXCEPT ![c] = NewClient]
  /\ LET roomId == sockets[c].roomId
         gone == [Server EXCEPT !.inbox[c] = <<>>]
     IN IF roomId = NoRoom THEN Commit(gone)
        ELSE IF roomId \notin DOMAIN rooms THEN Commit(gone)
        ELSE LET players == SelectSeq(rooms[roomId].players, LAMBDA p : p.id # c)
                 st1 == Send([gone EXCEPT !.rooms[roomId].players = players],
                             InRoom(roomId) \ {c}, "opponent-left", NoPayload)
             IN Commit(IF Len(players) = 0
                       THEN [st1 EXCEPT !.rooms = Delete(st1.rooms, roomId)]
                       ELSE st1)
  /\ UNCHANGED <<variant, now>>

(***************************************************************************)
(* Variant B: the browser client (src/client/main.js, lines 1-398).        *)
(* scores and goalFlashAlpha only feed the display and are left out.       *)
(***************************************************************************)

NaN == [t |-> "nan", v |-> 0]

\* The socket.on handlers of the client, applied to the oldest message in
\* flight to socket c.
Received(cl, m) ==
  IF m.ev = "player-assigned"
  THEN [cl EXCEPT !.myPlayerNumber = m.payload.playerNumber,
                  !.myPaddle = IF m.payload.playerNumber = 1
                               THEN [x |-> 100 * Unit, y |-> (GAME_HEIGHT * Unit) \div 2]
                               ELSE [x |-> (GAME_WIDTH - 100) * Unit,
                                     y |-> (GAME_HEIGHT * Unit) \div 2],
                  !.opponentPaddle = IF m.payload.playerNumber = 1
                                     THEN [x |-> Num((GAME_WIDTH - 100) * Unit),
                                           y |-> Num((GAME_HEIGHT * Unit) \div 2)]
                                     ELSE [x |-> Num(100 * Unit),
                                           y |-> Num((GAME_HEIGHT * Unit) \div 2)],
                  !.puck = m.payload.gameState.puck]
  ELSE IF m.ev = "game-start"
  THEN [cl EXCEPT !.gameStarted = TRUE, !.puck = m.payload.puck]
  ELSE IF m.ev = "opponent-move"
  THEN [cl EXCEPT !.opponentTarget = [x |-> m.payload.x, y |-> m.payload.y]]
  ELSE IF m.ev = "puck-sync"
  THEN IF cl.myPlayerNumber = 2 THEN [cl EXCEPT !.puck = m.payload] ELSE cl
  ELSE IF m.ev = "goal"
  THEN [cl EXCEPT !.puck = m.payload.puck]
  ELSE IF m.ev = "opponent-left"
  THEN [cl EXCEPT !.gameStarted = FALSE]
  ELSE cl

Deliver(c, T) ==
  /\ variant = "B"
  /\ Step(T)
  /\ sockets[c].connected
  /\ inbox[c] # <<>>
  /\ op' = Op("deliver", c, sockets[c].roomId)
  /\ clients' = [clients EXCEPT ![c] = Received(clients[c], Head(inbox[c]))]
  /\ inbox' = [inbox EXCEPT ![c] = Tail(inbox[c])]
  /\ emitted' = {}
  /\ UNCHANGED <<variant, sockets, rooms, now>>

\* updateMyPaddle; keys gives the (dx, dy) the pressed keys add up to.
updateMyPaddle(cl, keys) ==
  LET dx == IF cl.myPlayerNumber \in {1, 2} THEN keys.dx ELSE 0
      dy == IF cl.myPlayerNumber \in {1, 2} THEN keys.dy ELSE 0
      halfWidth == (GAME_WIDTH * Unit) \div 2
      r == PADDLE_RADIUS_B * Unit
      x == cl.myPaddle.x + dx
      y == cl.myPaddle.y + dy
  IN [paddle |-> [x |-> IF cl.myPlayerNumber = 1
                        THEN Max(r, Min(halfWidth - r, x))
                        ELSE Max(halfWidth + r, Min(GAME_WIDTH * Unit - r, x)),
                  y |-> Max(r, Min(GAME_HEIGHT * Unit - r, y))],
      moved |-> dx # 0 \/ dy # 0]

\* One coordinate of updateOpponentPaddle (lerpFactor 0.2); anything but two
\* finite numbers gives NaN.
Lerp(from, target) ==
  IF from.t = "num" /\ target.t = "num"
  THEN Num(from.v + Scaled(target.v - from.v, 2, 10))
  ELSE NaN

updateOpponentPaddle(cl) ==
  [x |-> Lerp(cl.opponentPaddle.x, cl.opponentTarget.x),
   y |-> Lerp(cl.opponentPaddle.y, cl.opponentTarget.y)]

\* checkPaddleCollision for a paddle at finite (px, py).  With the centres
\* coincident Math.atan2(0, 0) is 0 and the normal is NaN: the puck is moved,
\* its velocity is kept.
CollideAt(puck, px, py) ==
  LET dx == puck.x - px
      dy == puck.y - py
      reach == (PUCK_RADIUS_B + PADDLE_RADIUS_B) * Unit
  IN \* |dx| or |dy| >= reach implies distance >= reach
     IF Abs(dx) >= reach \/ Abs(dy) >= reach THEN puck
     ELSE LET distSq == dx * dx + dy * dy
              distance == Sqrt(distSq)
          IN IF distSq >= reach * reach THEN puck
             ELSE IF distSq = 0 THEN [puck EXCEPT !.x = px + reach, !.y = py]
             ELSE LET normalX == Scaled(dx, 1000, distance)
                      normalY == Scaled(dy, 1000, distance)
                      relativeVelocity == Scaled(puck.vx * normalX + puck.vy * normalY, 1, 1000)
                      vx == puck.vx - Scaled(2 * relativeVelocity * normalX, 1, 1000)
                      vy == puck.vy - Scaled(2 * relativeVelocity * normalY, 1, 1000)
                  IN [x |-> px + Scaled(normalX * reach, 1, 1000),
                      y |-> py + Scaled(normalY * reach, 1, 1000),
                      vx |-> IF relativeVelocity < 0 THEN Scaled(vx, 11, 10) ELSE puck.vx,
                      vy |-> IF relativeVelocity < 0 THEN Scaled(vy, 11, 10) ELSE puck.vy]

\* paddle coordinates are JavaScript values; a NaN coordinate fails the
\* distance test.
checkPaddleCollision(puck, paddle) ==
  IF paddle.x.t = "num" /\ paddle.y.t = "num"
  THEN CollideAt(puck, paddle.x.v, paddle.y.v)
  ELSE puck

CapSpeed(puck) ==
  LET speed == Sqrt(puck.vx * puck.vx + puck.vy * puck.vy)
  IN IF puck.vx * puck.vx + puck.vy * puck.vy > (MAX_SPEED * Unit) * (MAX_SPEED * Unit)
     THEN [puck EXCEPT !.vx = Scaled(puck.vx * MAX_SPEED * Unit, 1, speed),
                       !.vy = Scaled(puck.vy * MAX_SPEED * Unit, 1, speed)]
     ELSE puck

\* updatePuck, first part: the puck after integration, friction and the
\* wall bounces.
MovePuckB(puck) ==
  LET r == PUCK_RADIUS_B * Unit
      x == puck.x + puck.vx
      y0 == puck.y + puck.vy
      vx == Scaled(puck.vx, FRICTION, 100)
      vy0 == Scaled(puck.vy, FRICTION, 100)
      y1 == IF y0 - r < 0 THEN r ELSE y0
      vy1 == IF y0 - r < 0 THEN -vy0 ELSE vy0
      y == IF y1 + r > GAME_HEIGHT * Unit THEN GAME_HEIGHT * Unit - r ELSE y1
      vy == IF y1 + r > GAME_HEIGHT * Unit THEN -vy1 ELSE vy1
  IN [x |-> x, y |-> y, vx |-> vx, vy |-> vy]

\* updatePuck on the client of player 1 in a started game: the puck it
\* leaves and the message it emits.
updatePuck(puck, myPaddle, opponentPaddle) ==
  LET r == PUCK_RADIUS_B * Unit
      moved == MovePuckB(puck)
      x == moved.x
  IN IF x - r < 0 THEN [puck |-> moved, emit |-> "goal-scored", scorer |-> "player2"]
     ELSE IF x + r > GAME_WIDTH * Unit
     THEN [puck |-> moved, emit |-> "goal-scored", scorer |-> "player1"]
     ELSE [puck |-> CapSpeed(checkPaddleCollision(
                      checkPaddleCollision(moved, [x |-> Num(myPaddle.x), y |-> Num(myPaddle.y)]),
                      opponentPaddle)),
           emit |-> "puck-update", scorer |-> "none"]

\* One animation frame of the client of socket c in a started game
\* (gameLoop): updateMyPaddle, updateOpponentPaddle, updatePuck.  What the
\* frame emits is handled by the server before anything else happens.
ClientFrame(c, keys, rand, T) ==
  /\ variant = "B"
  /\ Step(T)
  /\ sockets[c].connected
  /\ clients[c].gameStarted
  /\ op' = Op("frame", c, sockets[c].roomId)
  /\ LET cl == clients[c]
         mine == updateMyPaddle(cl, keys)
         opponent == updateOpponentPaddle(cl)
         simulates == cl.myPlayerNumber = 1
         sim == updatePuck(cl.puck, mine.paddle, opponent)
         st1 == IF mine.moved
                THEN paddleMove(Server, c, [x |-> Num(mine.paddle.x), y |-> Num(mine.paddle.y)])
                ELSE Server
         st2 == IF ~simulates THEN st1
                ELSE IF sim.emit = "goal-scored" THEN goalScored(st1, c, sim.scorer, rand)
                ELSE puckUpdate(st1, c, sim.puck)
     IN /\ clients' = [clients EXCEPT ![c].myPaddle = mine.paddle,
                                      ![c].opponentPaddle = opponent,
                                      ![c].puck = IF simulates THEN sim.puck ELSE cl.puck]
        /\ Commit(st2)
  /\ UNCHANGED <<variant, sockets, now>>

(***************************************************************************)
(* What clients send in the model (variant B).                             *)
(***************************************************************************)

\* paddle-move payloads: a position far outside the table.
SessionPayloadsB == {[x |-> Num(1000 * Unit), y |-> Num(200 * Unit)]}
PlayPayloadsB == {[x |-> Num(1000 * Unit), y |-> Undef]}

\* puck-update payloads: a puck one pixel short of touching the right goal
\* line, moving right at 5 pixels per frame.
PuckPayloads == {[x |-> 784 * Unit, y |-> 200 * Unit, vx |-> 5 * Unit, vy |-> 0]}

\* what the pressed keys add up to in a frame
SessionKeys == {[dx |-> PADDLE_SPEED * Unit, dy |-> 0]}
PlayKeys == {[dx |-> 0, dy |-> 0]}

(***************************************************************************)
(* The two programs.                                                       *)
(***************************************************************************)

InitOf(v) ==
  /\ variant = v
  /\ sockets = [c \in Conns |-> NewSocket(TRUE)]
  /\ rooms = Empty
  /\ now = 0
  /\ op = Op("listen", 0, NoRoom)
  /\ emitted = {}
  /\ clients = [c \in Conns |-> NewClient]
  /\ inbox = [c \in Conns |-> <<>>]
  /\ steps = 0

Init == InitOf("A") \/ InitOf("B")

\* The steps of variant A in an environment e: sockets e.conns ask for room
\* ids e.rooms and send the paddle payloads e.paddles; e.angles are the
\* random draws; at most e.steps events.
NextA(e) ==
  \/ \E c \in e.conns, roomId \in e.rooms, angle \in e.angles :
       JoinRoomA(c, roomId, angle, e.steps)
  \/ \E c \in e.conns, payload \in e.paddles : PaddleUpdateA(c, payload, e.steps)
  \/ \E c \in e.conns : DisconnectA(c, e.steps)
  \/ Tick(e.angles, e.steps)

\* The steps of variant B in an environment e: sockets e.conns ask for room
\* ids e.rooms and run the client; beside what the client code emits, the
\* sockets e.paddleFrom send the paddle payloads e.paddles, e.puckFrom send
\* the puck payloads e.pucks and e.goalFrom report goals for e.scorers;
\* e.keys are the key presses, e.rands the random draws; at most e.steps
\* events.
NextB(e) ==
  \/ \E c \in e.conns, roomId \in e.rooms, rand \in e.rands :
       JoinRoomB(c, roomId, rand, e.steps)
  \/ \E c \in e.paddleFrom, data \in e.paddles : PaddleMoveB(c, data, e.steps)
  \/ \E c \in e.puckFrom, puckData \in e.pucks : PuckUpdateB(c, puckData, e.steps)
  \/ \E c \in e.goalFrom, scorer \in e.scorers, rand \in e.rands :
       GoalScoredB(c, scorer, rand, e.steps)
  \/ \E c \in e.conns : DisconnectB(c, e.steps)
  \/ \E c \in e.conns : Deliver(c, e.steps)
  \/ \E c \in e.conns, keys \in e.keys, rand \in e.rands :
       ClientFrame(c, keys, rand, e.steps)

\* Session runs: every socket, every room id, one payload of each kind.
SessionA ==
  [conns |-> Conns, rooms |-> RoomIds, paddles |-> SessionPayloadsA,
   angles |-> SessionAngles, steps |-> MaxSteps]
SessionB ==
  [conns |-> Conns, rooms |-> RoomIds, paddleFrom |-> Conns, paddles |-> SessionPayloadsB,
   puckFrom |-> {1}, pucks |-> PuckPayloads, goalFrom |-> {1}, scorers |-> {"player1"},
   keys |-> SessionKeys, rands |-> SessionRands, steps |-> MaxSteps]

Next == NextA(SessionA) \/ NextB(SessionB)

Spec == Init /\ [][Next]_vars

\* Play runs: two sockets, one room id or none, longer runs, more payloads.
PlayConns == {1, 2}
PlayA ==
  [conns |-> PlayConns, rooms |-> {1, NoRoom}, paddles |-> PlayPayloadsA,
   angles |-> Angles, steps |-> PlaySteps]
PlayB ==
  [conns |-> PlayConns, rooms |-> {1}, paddleFrom |-> {2}, paddles |-> PlayPayloadsB,
   puckFrom |-> {1}, pucks |-> PuckPayloads, goalFrom |-> {2}, scorers |-> {"player2"},
   keys |-> PlayKeys, rands |-> PlayRands, steps |-> PlaySteps]

NextPlay == NextA(PlayA) \/ NextB(PlayB)

SpecPlay == Init /\ [][NextPlay]_vars

\* Edge runs: two sockets that also ask for no room id, and send paddle
\* input without a payload object, with a string in it, or before joining.
EdgePayloadsA == {Null, Payload(Str, Num(100 * Unit), Undef, Null)}
EdgePayloadsB == {Null, [x |-> Str, y |-> Num(100 * Unit)]}
EdgeA ==
  [conns |-> PlayConns, rooms |-> {1, NoRoom}, paddles |-> EdgePayloadsA,
   angles |-> SessionAngles, steps |-> EdgeSteps]
EdgeB ==
  [conns |-> PlayConns, rooms |-> {1, NoRoom}, paddleFrom |-> PlayConns,
   paddles |-> EdgePayloadsB, puckFrom |-> {2}, pucks |-> PuckPayloads, goalFrom |-> {2},
   scorers |-> {"player1"}, keys |-> PlayKeys, rands |-> SessionRands, steps |-> EdgeSteps]

NextEdge == NextA(EdgeA) \/ NextB(EdgeB)

SpecEdge == Init /\ [][NextEdge]_vars

(***************************************************************************)
(* Scenes: a game in progress between sockets 1 and 2 in room 1, with the  *)
(* puck at one of a few places around a paddle or short of a goal line.    *)
(* The physics (updateRoom, updatePuck and the collision functions) is     *)
(* applied to each scene for a few ticks or frames.                        *)
(***************************************************************************)

Px(n) == n * Unit

SceneVelocities == {[vx |-> 0, vy |-> 0], [vx |-> Px(-6), vy |-> Px(2)], [vx |-> Px(12), vy |-> 0]}

\* Variant A: the left paddle at the right edge of its half, the right
\* paddle at the right edge of the table; the puck around the left paddle,
\* or between the right paddle and the right goal line.
ScenePucksA ==
  {[x |-> Px(x), y |-> Px(y), vx |-> v.vx, vy |-> v.vy] :
     x \in {410, 443, 460, 490, 958}, y \in {250, 270, 274, 303}, v \in SceneVelocities}
  \cup {[x |-> MaxX("left"), y |-> CENTER_Y, vx |-> 0, vy |-> 0]}   \* at rest on the left paddle's centre

SceneA(puck) ==
  /\ variant = "A"
  /\ sockets = [c \in Conns |->
                  IF c = 1 THEN [NewSocket(TRUE) EXCEPT !.joined = {1}, !.roomId = 1,
                                                        !.side = "left"]
                  ELSE IF c = 2 THEN [NewSocket(TRUE) EXCEPT !.joined = {1}, !.roomId = 1,
                                                             !.side = "right"]
                  ELSE NewSocket(TRUE)]
  /\ rooms = Put(Empty, 1,
                 [id |-> 1,
                  players |-> [left |-> [id |-> 1, x |-> MaxX("left"), y |-> CENTER_Y,
                                         vx |-> 0, vy |-> 0],
                               right |-> [id |-> 2, x |-> MaxX("right"), y |-> CENTER_Y,
                                          vx |-> 0, vy |-> 0]],
                  puck |-> puck,
                  scores |-> [left |-> 0, right |-> 0],
                  goalFlash |-> NoFlash])
  /\ now = 0
  /\ op = Op("listen", 0, NoRoom)
  /\ emitted = {}
  /\ clients = [c \in Conns |-> NewClient]
  /\ inbox = [c \in Conns |-> <<>>]
  /\ steps = 0

\* Variant B: the paddle of player 1 at the right edge of its half; the
\* paddle of player 2 at its start, or where an unclamped paddle-move put
\* it, past the right goal line's reach; the puck around the paddle of
\* player 1, or short of the right goal line.
ScenePucksB ==
  {[x |-> Px(x), y |-> Px(y), vx |-> v.vx, vy |-> v.vy] :
     x \in {345, 378, 395, 781}, y \in {180, 204, 233},
     v \in {[vx |-> 0, vy |-> 0], [vx |-> Px(-6), vy |-> Px(2)], [vx |-> Px(5), vy |-> 0]}}
  \cup {[x |-> Px(GAME_WIDTH) \div 2 - Px(PADDLE_RADIUS_B), y |-> Px(GAME_HEIGHT) \div 2,
          vx |-> 0, vy |-> 0]}   \* at rest on the centre of the paddle of player 1

SceneOpponents == {[x |-> Num(Px(GAME_WIDTH - 100)), y |-> Num(Px(200))],
                   [x |-> Num(Px(790)), y |-> Num(Px(200))]}

SceneB(puck, opponent) ==
  LET mine == [x |-> Px(GAME_WIDTH) \div 2 - Px(PADDLE_RADIUS_B), y |-> Px(GAME_HEIGHT) \div 2]
  IN
  /\ variant = "B"
  /\ sockets = [c \in Conns |->
                  IF c \in {1, 2} THEN [NewSocket(TRUE) EXCEPT !.joined = {1}, !.roomId = 1,
                                                              !.playerNumber = c]
                  ELSE NewSocket(TRUE)]
  /\ rooms = Put(Empty, 1,
                 [players |-> <<[id |-> 1, playerNumber |-> 1], [id |-> 2, playerNumber |-> 2]>>,
                  gameState |-> [puck |-> puck,
                                 players |-> [player1 |-> [x |-> Num(mine.x), y |-> Num(mine.y)],
                                              player2 |-> opponent],
                                 scores |-> [player1 |-> 0, player2 |-> 0]]])
  /\ now = 0
  /\ op = Op("listen", 0, NoRoom)
  /\ emitted = {}
  /\ clients = [c \in Conns |->
                  IF c = 1
                  THEN [NewClient EXCEPT !.myPlayerNumber = 1, !.gameStarted = TRUE,
                                         !.puck = puck, !.myPaddle = mine,
                                         !.opponentPaddle = opponent,
                                         !.opponentTarget = opponent]
                  ELSE IF c = 2
                  THEN [NewClient EXCEPT !.myPlayerNumber = 2, !.gameStarted = TRUE,
                                         !.puck = puck,
                                         !.myPaddle = [x |-> Px(GAME_WIDTH - 100),
                                                       y |-> Px(GAME_HEIGHT) \div 2],
                                         !.opponentPaddle = [x |-> Num(mine.x), y |-> Num(mine.y)],
                                         !.opponentTarget = [x |-> Num(mine.x), y |-> Num(mine.y)]]
                  ELSE NewClient]
  /\ inbox = [c \in Conns |-> <<>>]
  /\ steps = 0

\* Long runs of variant A: socket 1 waits as the left player in room 1, the
\* puck is about to cross a goal line or rests at the centre; ticks follow,
\* long enough for a goal flash to expire, and socket 2 may join at any time.
FlashPucks ==
  {[x |-> Px(970), y |-> CENTER_Y, vx |-> Px(12), vy |-> 0],
   [x |-> Px(-10), y |-> CENTER_Y, vx |-> Px(-12), vy |-> 0],
   [x |-> CENTER_X, y |-> CENTER_Y, vx |-> 0, vy |-> 0]}

FlashScene(puck) ==
  /\ variant = "A"
  /\ sockets = [c \in Conns |->
                  IF c = 1 THEN [NewSocket(TRUE) EXCEPT !.joined = {1}, !.roomId = 1,
                                                        !.side = "left"]
                  ELSE NewSocket(TRUE)]
  /\ rooms = Put(Empty, 1,
                 [id |-> 1,
                  players |-> Put(Empty, "left",
                                  [id |-> 1, x |-> Px(PADDLE_RADIUS * 2), y |-> CENTER_Y,
                                   vx |-> 0, vy |-> 0]),
                  puck |-> puck,
                  scores |-> [left |-> 0, right |-> 0],
                  goalFlash |-> NoFlash])
  /\ now = 0
  /\ op = Op("listen", 0, NoRoom)
  /\ emitted = {}
  /\ clients = [c \in Conns |-> NewClient]
  /\ inbox = [c \in Conns |-> <<>>]
  /\ steps = 0

InitFlash == \E puck \in FlashPucks : FlashScene(puck)

NextFlash ==
  \/ Tick(SessionAngles, FlashSteps)
  \/ \E angle \in SessionAngles : JoinRoomA(2, 1, angle, FlashSteps)

SpecFlash == InitFlash /\ [][NextFlash]_vars

\* Variant A, both paddles at the upper limit of their travel, next to the
\* top wall, and as close to each other as their halves allow: the puck at
\* rest between the left paddle and the wall, or between the two paddles.
WallPucksA ==
  {[x |-> Px(443), y |-> Px(20), vx |-> 0, vy |-> 0],
   [x |-> CENTER_X, y |-> Px(60), vx |-> 0, vy |-> 0]}

WallSceneA(puck) ==
  /\ variant = "A"
  /\ sockets = [c \in Conns |->
                  IF c = 1 THEN [NewSocket(TRUE) EXCEPT !.joined = {1}, !.roomId = 1,
                                                        !.side = "left"]
                  ELSE IF c = 2 THEN [NewSocket(TRUE) EXCEPT !.joined = {1}, !.roomId = 1,
                                                             !.side = "right"]
                  ELSE NewSocket(TRUE)]
  /\ rooms = Put(Empty, 1,
                 [id |-> 1,
                  players |-> [left |-> [id |-> 1, x |-> MaxX("left"), y |-> MinY,
                                         vx |-> 0, vy |-> 0],
                               right |-> [id |-> 2, x |-> MinX("right"), y |-> MinY,
                                          vx |-> 0, vy |-> 0]],
                  puck |-> puck,
                  scores |-> [left |-> 0, right |-> 0],
                  goalFlash |-> NoFlash])
  /\ now = 0
  /\ op = Op("listen", 0, NoRoom)
  /\ emitted = {}
  /\ clients = [c \in Conns |-> NewClient]
  /\ inbox = [c \in Conns |-> <<>>]
  /\ steps = 0

InitScene ==
  \/ \E puck \in ScenePucksA : SceneA(puck)
  \/ \E puck \in WallPucksA : WallSceneA(puck)
  \/ \E puck \in ScenePucksB, opponent \in SceneOpponents : SceneB(puck, opponent)

\* a puck-update payload written by hand: a puck at the centre moving right
\* at 12 pixels per frame
FastPucks == {[x |-> Px(GAME_WIDTH) \div 2, y |-> Px(GAME_HEIGHT) \div 2, vx |-> Px(12), vy |-> 0]}

NextScene ==
  \/ Tick(SessionAngles, SceneSteps)
  \/ \E c \in PlayConns, keys \in PlayKeys, rand \in SessionRands :
       ClientFrame(c, keys, rand, SceneSteps)
  \/ \E puckData \in FastPucks : PuckUpdateB(1, puckData, SceneSteps)

SpecScene == InitScene /\ [][NextScene]_vars

(***************************************************************************)
(* Views of the state shared by the properties below.                      *)
(***************************************************************************)

\* The occupied slots of a room: in variant A a slot is a side of
\* room.players, in variant B an entry of the room.players array.
SlotsOf(room) ==
  IF variant = "A"
  THEN {[slot |-> s, id |-> room.players[s].id, side |-> s] : s \in DOMAIN room.players}
  ELSE {[slot |-> i, id |-> room.players[i].id,
         side |-> PlayerKey(room.players[i].playerNumber)] : i \in 1 .. Len(room.players)}

\* (left, right) or (player1, player2)
ScoresOf(room) ==
  IF variant = "A" THEN <<room.scores.left, room.scores.right>>
  ELSE <<room.gameState.scores.player1, room.gameState.scores.player2>>

PaddlesOf(room) == IF variant = "A" THEN room.players ELSE room.gameState.players

\* The step handles join-room from socket c for room id r.
JoinStep(c, r) == op' = Op("join-room", c, r)

\* The step gave socket c the side (A) or player number (B) in room r and
\* told it so.
AssignedA(c, r, side) ==
  /\ sockets'[c].roomId = r /\ sockets'[c].side = side
  /\ r \in DOMAIN rooms' /\ side \in DOMAIN rooms'[r].players
  /\ rooms'[r].players[side].id = c
  /\ \E m \in emitted' : m.to = c /\ m.ev = "joined" /\ m.payload.side = side
AssignedB(c, r, n) ==
  /\ sockets'[c].roomId = r /\ sockets'[c].playerNumber = n
  /\ r \in DOMAIN rooms'
  /\ \E i \in 1 .. Len(rooms'[r].players) :
       rooms'[r].players[i] = [id |-> c, playerNumber |-> n]
  /\ \E m \in emitted' : m.to = c /\ m.ev = "player-assigned" /\ m.payload.playerNumber = n
Assigned(c, r, first) ==
  IF variant = "A" THEN AssignedA(c, r, IF first THEN "left" ELSE "right")
  ELSE AssignedB(c, r, IF first THEN 1 ELSE 2)

\* The step answered socket c with room-full and nothing else, and left the
\* socket as it was.
Rejected(c) ==
  /\ \E m \in emitted' : m.to = c /\ m.ev = "room-full"
  /\ \A m \in emitted' : m.to = c => m.ev = "room-full"
  /\ sockets'[c] = sockets[c]

\* Room r holds exactly its first joiner d, a live socket, as left / player 1.
FirstOnly(r, d) ==
  /\ r \in DOMAIN rooms
  /\ sockets[d].connected
  /\ SlotsOf(rooms[r]) = {[slot |-> IF variant = "A" THEN "left" ELSE 1, id |-> d,
                           side |-> IF variant = "A" THEN "left" ELSE "player1"]}

\* Room r holds two distinct live sockets, one per side.
BothPresent(r, d1, d2) ==
  /\ r \in DOMAIN rooms
  /\ d1 # d2 /\ sockets[d1].connected /\ sockets[d2].connected
  /\ \E s1, s2 \in SlotsOf(rooms[r]) :
       /\ SlotsOf(rooms[r]) = {s1, s2}
       /\ s1.id = d1 /\ s2.id = d2 /\ s1.side # s2.side

(***************************************************************************)
(* Properties of the session runs (Spec).                                  *)
(***************************************************************************)

\* C1: the first socket to join a fresh room id gets left / player 1, a
\* second, distinct socket joining while only that first one is there gets
\* right / player 2, and a third socket joining while both are present gets
\* room-full and no side.
C1_JoinOrder ==
  [][\A c \in Conns, r \in RoomIds :
       JoinStep(c, r) =>
         /\ r \notin DOMAIN rooms => Assigned(c, r, TRUE)
         /\ \A d \in Conns \ {c} : FirstOnly(r, d) => Assigned(c, r, FALSE)
         /\ \A d1, d2 \in Conns \ {c} : BothPresent(r, d1, d2) => Rejected(c)]_vars

\* C1 happens: a third socket has just been turned away from a room that
\* two other live sockets hold.
C1_ThirdTurnedAway ==
  \E c \in Conns, r \in RoomIds :
    /\ op = Op("join-room", c, r)
    /\ \E m \in emitted : m.to = c /\ m.ev = "room-full"
    /\ \E d1, d2 \in Conns \ {c} : BothPresent(r, d1, d2)

\* C2: a room has at most two occupied slots, every occupied slot belongs
\* to a socket that is still connected, and no socket owns more than one
\* slot.
C2_SlotsOneToOne ==
  /\ \A r \in DOMAIN rooms :
       /\ Cardinality(SlotsOf(rooms[r])) <= 2
       /\ \A s \in SlotsOf(rooms[r]) : sockets[s.id].connected
  /\ \A r1, r2 \in DOMAIN rooms :
       \A s1 \in SlotsOf(rooms[r1]), s2 \in SlotsOf(rooms[r2]) :
         s1.id = s2.id => r1 = r2 /\ s1 = s2

\* A socket is bound to room r: its socket data names r, or a slot of r
\* carries its id.
BoundTo(c, r) ==
  /\ sockets[c].connected
  /\ \/ sockets[c].roomId = r
     \/ r \in DOMAIN rooms /\ \E s \in SlotsOf(rooms[r]) : s.id = c

\* C3: after every disconnect, a room id that no still-connected socket is
\* bound to is absent from the registry.
C3_EmptyRoomGone ==
  op.name = "disconnect" => \A r \in DOMAIN rooms : \E c \in Conns : BoundTo(c, r)

\* C4: two different live sockets that hold slots of the same room never
\* have the same side / player number.
C4_DistinctSides ==
  \A r \in DOMAIN rooms :
    \A s1, s2 \in SlotsOf(rooms[r]) :
      (s1.id # s2.id /\ sockets[s1.id].connected /\ sockets[s2.id].connected)
        => s1.side # s2.side

\* Both slots of room r are filled.
BothFilled(r) ==
  /\ r \in DOMAIN rooms
  /\ IF variant = "A" THEN DOMAIN rooms[r].players = {"left", "right"}
     ELSE Len(rooms[r].players) >= 2

\* C9: a join-room for a room with both slots filled is answered with
\* room-full and changes neither the registry nor any socket's binding; a
\* join-room for any other room id succeeds, whatever the socket was told
\* before.
C9_FullRoomRejects ==
  [][\A c \in Conns, r \in RoomIds :
       JoinStep(c, r) =>
         IF BothFilled(r)
         THEN Rejected(c) /\ rooms' = rooms /\ sockets' = sockets
         ELSE \E first \in BOOLEAN : Assigned(c, r, first)]_vars

\* C9 happens: a socket was turned away from a full room and then took a
\* slot in another room (both answers are still in flight to it).
C9_RejectedThenJoined ==
  \E c \in Conns, r \in RoomIds :
    /\ variant = "B"
    /\ op = Op("join-room", c, r)
    /\ Len(inbox[c]) = 2
    /\ inbox[c][1].ev = "room-full" /\ inbox[c][2].ev = "player-assigned"
    /\ \E q \in RoomIds \ {r} : BothFilled(q)
    /\ \E s \in SlotsOf(rooms[r]) : s.id = c

\* C10: paddle input from socket c changes at most the paddle of the slot
\* that c holds in its room, and never a paddle that another live socket
\* holds.
C10_OwnPaddleOnly ==
  [][\A c \in Conns :
       (op'.name \in {"paddle-update", "paddle-move"} /\ op'.conn = c) =>
         /\ DOMAIN rooms' = DOMAIN rooms
         /\ \A r \in DOMAIN rooms :
              \A k \in DOMAIN PaddlesOf(rooms[r]) :
                PaddlesOf(rooms'[r])[k] # PaddlesOf(rooms[r])[k] =>
                  /\ r = sockets[c].roomId
                  /\ \E s \in SlotsOf(rooms[r]) : s.id = c /\ s.side = k
                  /\ \A s \in SlotsOf(rooms[r]) :
                       (s.side = k /\ sockets[s.id].connected) => s.id = c]_vars

(***************************************************************************)
(* Properties of the play runs (SpecPlay).                                 *)
(***************************************************************************)

\* A stored or serialized paddle of `side` lies in that side's half and
\* inside the vertical bounds (variant A).
InHalfA(paddle, side) ==
  /\ MinX(side) <= paddle.x /\ paddle.x <= MaxX(side)
  /\ MinY <= paddle.y /\ paddle.y <= MaxY

\* The same for a paddle of variant B, whose coordinates are JavaScript
\* values.
InHalfB(paddle, key) ==
  LET r == PADDLE_RADIUS_B * Unit
      halfWidth == (GAME_WIDTH * Unit) \div 2
  IN /\ paddle.x.t = "num" /\ paddle.y.t = "num"
     /\ IF key = "player1" THEN r <= paddle.x.v /\ paddle.x.v <= halfWidth - r
        ELSE halfWidth + r <= paddle.x.v /\ paddle.x.v <= GAME_WIDTH * Unit - r
     /\ r <= paddle.y.v /\ paddle.y.v <= GAME_HEIGHT * Unit - r

\* C5: whatever clients send, the paddle of every occupied slot, in the
\* server's state and in every snapshot it sends, lies in its own half and
\* inside the vertical bounds.
C5_PaddlesInOwnHalf ==
  /\ \A r \in DOMAIN rooms :
       \A s \in SlotsOf(rooms[r]) :
         IF variant = "A" THEN InHalfA(rooms[r].players[s.side], s.side)
         ELSE InHalfB(rooms[r].gameState.players[s.side], s.side)
  /\ \A m \in emitted :
       /\ m.ev = "state" =>
            \A k \in DOMAIN m.payload.paddles : InHalfA(m.payload.paddles[k], k)
       /\ m.ev = "joined" =>
            \A k \in DOMAIN m.payload.state.paddles : InHalfA(m.payload.state.paddles[k], k)
       /\ m.ev = "opponent-move" =>
            InHalfB([x |-> m.payload.x, y |-> m.payload.y], PlayerKey(m.payload.playerNumber))

\* The puck lies past a goal line (variant B, as the client tests it).
PastGoalLine(puck) ==
  \/ puck.x - PUCK_RADIUS_B * Unit < 0
  \/ puck.x + PUCK_RADIUS_B * Unit > GAME_WIDTH * Unit

\* The client of socket c has reported the crossing its puck is in, and the
\* server's goal message has not reached it yet.
GoalInFlight(c) ==
  /\ clients[c].gameStarted /\ clients[c].myPlayerNumber = 1
  /\ PastGoalLine(clients[c].puck)
  /\ \E i \in 1 .. Len(inbox[c]) : inbox[c][i].ev = "goal"

\* C6: one crossing of a goal line is counted once.  In variant A a tick
\* adds at most one goal per room and leaves the puck between the goal
\* lines; in variant B a frame of the client whose puck is still past the
\* goal line it has reported, before the server's goal message reaches it,
\* leaves the scores alone.
C6_CountedOncePerCrossing ==
  [][/\ op'.name = "tick" =>
          \A r \in DOMAIN rooms :
            /\ r \in DOMAIN rooms'
            /\ (rooms'[r].scores.left + rooms'[r].scores.right)
                 - (rooms[r].scores.left + rooms[r].scores.right) \in {0, 1}
            /\ rooms'[r].puck.x > -(PUCK_RADIUS * Unit)
            /\ rooms'[r].puck.x < (TABLE_WIDTH + PUCK_RADIUS) * Unit
     /\ \A c \in Conns :
          (op'.name = "frame" /\ op'.conn = c /\ GoalInFlight(c)) =>
            \A r \in DOMAIN rooms :
              r \in DOMAIN rooms' /\ ScoresOf(rooms'[r]) = ScoresOf(rooms[r])]_vars

\* The step detects a goal in room r: in variant A the tick finds the puck
\* at or past a goal line after moving it; in variant B the frame of the
\* room's simulating client (player 1) moves its puck past a goal line.
GoalDetected(r) ==
  IF variant = "A"
  THEN /\ op'.name = "tick"
       /\ \/ Collided(rooms[r]).puck.x <= -(PUCK_RADIUS * Unit)
          \/ Collided(rooms[r]).puck.x >= (TABLE_WIDTH + PUCK_RADIUS) * Unit
  ELSE /\ op'.name = "frame"
       /\ sockets[op'.conn].roomId = r
       /\ clients[op'.conn].myPlayerNumber = 1
       /\ PastGoalLine([x |-> clients[op'.conn].puck.x + clients[op'.conn].puck.vx])

\* C7: whatever clients send, the scores of a room are never negative, and
\* while the room lives they change only by adding exactly 1 to exactly one
\* counter, and only in a step that detects a goal.
C7_ScoresOnlyByGoals ==
  [][\A r \in DOMAIN rooms \cap DOMAIN rooms' :
       LET old == ScoresOf(rooms[r])
           new == ScoresOf(rooms'[r])
       IN /\ new[1] >= 0 /\ new[2] >= 0
          /\ new # old =>
               /\ \/ new = <<old[1] + 1, old[2]>>
                  \/ new = <<old[1], old[2] + 1>>
               /\ GoalDetected(r)]_vars

\* The puck of room r after the step is a fresh one at the centre.
AtCentre(r) ==
  IF variant = "A"
  THEN rooms'[r].puck.x = CENTER_X /\ rooms'[r].puck.y = CENTER_Y
  ELSE /\ rooms'[r].gameState.puck.x = (GAME_WIDTH * Unit) \div 2
       /\ rooms'[r].gameState.puck.y = (GAME_HEIGHT * Unit) \div 2

\* The step credits the first (left / player 1) or second (right / player 2)
\* counter of room r with one goal, leaves the other counter alone and
\* puts the puck back at the centre.
Credited(r, first) ==
  /\ r \in DOMAIN rooms /\ r \in DOMAIN rooms'
  /\ ScoresOf(rooms'[r]) =
       IF first THEN <<ScoresOf(rooms[r])[1] + 1, ScoresOf(rooms[r])[2]>>
       ELSE <<ScoresOf(rooms[r])[1], ScoresOf(rooms[r])[2] + 1>>
  /\ AtCentre(r)

\* C8: a puck crossing the right boundary credits left / player 1, a puck
\* crossing the left boundary credits right / player 2; the other counter
\* is unchanged and the puck is reset to the centre.
C8_GoalCredit ==
  [][/\ (variant = "A" /\ op'.name = "tick") =>
          \A r \in DOMAIN rooms :
            LET x == Collided(rooms[r]).puck.x
            IN /\ x >= (TABLE_WIDTH + PUCK_RADIUS) * Unit => Credited(r, TRUE)
               /\ x <= -(PUCK_RADIUS * Unit) => Credited(r, FALSE)
     /\ \A c \in Conns :
          (variant = "B" /\ op'.name = "frame" /\ op'.conn = c
             /\ clients[c].myPlayerNumber = 1) =>
            LET x == clients[c].puck.x + clients[c].puck.vx
            IN /\ x + PUCK_RADIUS_B * Unit > GAME_WIDTH * Unit =>
                    Credited(sockets[c].roomId, TRUE)
               /\ x - PUCK_RADIUS_B * Unit < 0 => Credited(sockets[c].roomId, FALSE)]_vars

\* C8 happens: the tick has just credited left with the room's first goal
\* and the puck is back at the centre, leaving towards the right.
C8_LeftCredited ==
  \E r \in DOMAIN rooms :
    /\ variant = "A" /\ op.name = "tick"
    /\ rooms[r].scores = [left |-> 1, right |-> 0]
    /\ rooms[r].puck.x = CENTER_X /\ rooms[r].puck.y = CENTER_Y
    /\ rooms[r].goalFlash = [side |-> "left", until |-> now + GOAL_FLASH_MS]

\* The server's puck of a room.
PuckOf(room) == IF variant = "A" THEN room.puck ELSE room.gameState.puck

\* Socket c is the occupant without puck authority: player 2, and nothing
\* but player 2, of its room.
NonAuthoritative(c) ==
  /\ variant = "B"
  /\ sockets[c].roomId \in DOMAIN rooms
  /\ sockets[c].playerNumber = 2
  /\ \A s \in SlotsOf(rooms[sockets[c].roomId]) : s.id = c => s.side = "player2"

\* C11: the server's puck changes only in the simulation step (variant A)
\* or through player 1 (variant B): no message from player 2 changes the
\* puck the server holds, nor makes the server relay a puck to anyone.
C11_PuckAuthority ==
  [][/\ (variant = "A" /\ op'.name # "tick") =>
          \A r \in DOMAIN rooms \cap DOMAIN rooms' : PuckOf(rooms'[r]) = PuckOf(rooms[r])
     /\ \A c \in Conns :
          (NonAuthoritative(c) /\ op'.conn = c
             /\ op'.name \in {"paddle-move", "puck-update", "goal-scored", "frame"}) =>
            /\ \A r \in DOMAIN rooms \cap DOMAIN rooms' :
                 PuckOf(rooms'[r]) = PuckOf(rooms[r])
            /\ \A m \in emitted' : m.ev \notin {"puck-sync", "goal"}]_vars

(***************************************************************************)
(* Properties of the edge runs (SpecEdge).                                 *)
(***************************************************************************)

\* Socket c is connected and no join-room of it has succeeded.
NeverJoined(c) == sockets[c].connected /\ sockets[c].joined = {}

InputEvents == {"paddle-update", "paddle-move", "puck-update", "goal-scored"}

\* C12: paddle, puck or goal input from a socket that has not joined a room
\* is ignored: the registry, the sockets and the messages in flight stay as
\* they are, nothing is emitted, and the handler does not throw.
C12_UnboundInputIgnored ==
  [][\A c \in Conns :
       (op'.conn = c /\ op'.name \in InputEvents \cup {"crashed"} /\ NeverJoined(c)) =>
         /\ op'.name # "crashed"
         /\ rooms' = rooms /\ sockets' = sockets /\ inbox' = inbox
         /\ emitted' = {}]_vars

\* C12 happens: paddle input of a socket that never joined has just been
\* handled while a room with an occupant exists.
C12_UnboundPaddleInput ==
  /\ op.name \in {"paddle-update", "paddle-move"}
  /\ NeverJoined(op.conn)
  /\ \E r \in DOMAIN rooms : SlotsOf(rooms[r]) # {}

\* Every stored paddle coordinate of the room is a finite number.
PaddlesNumeric(room) ==
  variant = "B" =>
    \A k \in DOMAIN room.gameState.players :
      room.gameState.players[k].x.t = "num" /\ room.gameState.players[k].y.t = "num"

\* C13: paddle input with non-numeric or missing fields, or with no payload
\* object at all, never makes the handler throw, and a field that is not a
\* number is dropped: the stored paddle coordinates, numbers from the start,
\* stay numbers.
C13_MalformedFieldsDropped ==
  [][(op'.name \in {"paddle-update", "paddle-move", "crashed"}) =>
       /\ op'.name # "crashed"
       /\ \A r \in DOMAIN rooms' : PaddlesNumeric(rooms'[r])]_vars

\* C14: a join-room without a room id is answered with an error message to
\* the sender and to nobody else; the registry and every socket's binding
\* stay as they are.
C14_MissingRoomIdRefused ==
  [][\A c \in Conns :
       JoinStep(c, NoRoom) =>
         /\ \E m \in emitted' : m.to = c /\ m.ev = "error-message"
         /\ \A m \in emitted' : m.to = c /\ m.ev = "error-message"
         /\ rooms' = rooms /\ sockets' = sockets]_vars

(***************************************************************************)
(* More properties of the session runs (Spec).                             *)
(***************************************************************************)

\* Who holds which side of a room, whatever the slot is called.
HoldersOf(room) == {[id |-> s.id, side |-> s.side] : s \in SlotsOf(room)}

\* C15: when a socket that holds a slot of the room it is bound to
\* disconnects, no slot of that room is its own any more, every other live
\* occupant is told, the room is dropped from the registry if no slot is
\* left, and otherwise it stays with one occupied slot (waiting for one
\* player) and with the other paddle, the puck and the scores untouched.
C15_DisconnectCleansUp ==
  [][\A c \in Conns :
       (op'.name = "disconnect" /\ op'.conn = c
          /\ sockets[c].roomId \in DOMAIN rooms
          /\ \E s \in SlotsOf(rooms[sockets[c].roomId]) : s.id = c) =>
         LET r == sockets[c].roomId
             remaining == {h \in HoldersOf(rooms[r]) : h.id # c}
         IN /\ \A h \in remaining :
                 sockets[h.id].connected =>
                   \E m \in emitted' : m.to = h.id /\ m.ev \in {"player-left", "opponent-left"}
            /\ IF remaining = {}
               THEN r \notin DOMAIN rooms'
               ELSE /\ r \in DOMAIN rooms'
                    /\ HoldersOf(rooms'[r]) = remaining
                    /\ Cardinality(SlotsOf(rooms'[r])) = 1
                    /\ PuckOf(rooms'[r]) = PuckOf(rooms[r])
                    /\ ScoresOf(rooms'[r]) = ScoresOf(rooms[r])
                    /\ \A h \in remaining :
                         PaddlesOf(rooms'[r])[h.side] = PaddlesOf(rooms[r])[h.side]]_vars

\* The assignment messages (joined / player-assigned) the step sent to c.
AssignmentsTo(c) == {m \in emitted' : m.to = c /\ m.ev \in {"joined", "player-assigned"}}

\* The assignment message m carries a snapshot with the joiner's own paddle
\* at the start position of the side it names.
OwnPaddleAtStart(m) ==
  IF m.ev = "joined"
  THEN /\ m.payload.side \in DOMAIN m.payload.state.paddles
       /\ m.payload.state.paddles[m.payload.side].x =
            (IF m.payload.side = "left" THEN PADDLE_RADIUS * 2
             ELSE TABLE_WIDTH - PADDLE_RADIUS * 2) * Unit
       /\ m.payload.state.paddles[m.payload.side].y = CENTER_Y
  ELSE m.payload.gameState.players[PlayerKey(m.payload.playerNumber)] =
         [x |-> Num((IF m.payload.playerNumber = 1 THEN 100 ELSE GAME_WIDTH - 100) * Unit),
          y |-> Num((GAME_HEIGHT * Unit) \div 2)]

\* C16: a join that succeeds tells every live socket that already holds a
\* slot of the room (by player-joined, or by game-start in variant B), does
\* not send player-joined to the joiner, and sends the joiner exactly one
\* assignment message, whose snapshot has the joiner's own paddle at its
\* side's start position.
C16_JoinNotifies ==
  [][\A c \in Conns, r \in RoomIds :
       (JoinStep(c, r) /\ \E first \in BOOLEAN : Assigned(c, r, first)) =>
         /\ r \in DOMAIN rooms =>
              \A h \in HoldersOf(rooms[r]) :
                (h.id # c /\ sockets[h.id].connected) =>
                  \E m \in emitted' : m.to = h.id /\ m.ev \in {"player-joined", "game-start"}
         /\ \A m \in emitted' : m.to = c => m.ev # "player-joined"
         /\ Cardinality(AssignmentsTo(c)) = 1
         /\ \A m \in AssignmentsTo(c) : OwnPaddleAtStart(m)]_vars

\* C17: in variant B a room held by two live sockets has a puck authority:
\* exactly one of the two is player 1, the only client that advances the
\* puck (updatePuck returns at once for any other player number).
C17_PuckAuthorityPresent ==
  variant = "B" =>
    \A r \in DOMAIN rooms :
      \A h1, h2 \in HoldersOf(rooms[r]) :
        (h1.id # h2.id /\ sockets[h1.id].connected /\ sockets[h2.id].connected) =>
          Cardinality({h \in {h1, h2} : h.side = "player1"}) = 1

(***************************************************************************)
(* More properties of the play runs (SpecPlay).                            *)
(***************************************************************************)

\* C18: a tick steps every room of the registry once and then broadcasts
\* it.  The paddle positions the step works with are the ones the inputs
\* before the tick stored, each paddle velocity is damped once, a puck that
\* comes near no paddle and no goal line advances by its velocity once, and every
\* snapshot a socket of the room gets is the room as the completed step
\* left it.
C18_TickStepsThenBroadcasts ==
  [][(variant = "A" /\ op'.name = "tick") =>
       /\ DOMAIN rooms' = DOMAIN rooms
       /\ \A r \in DOMAIN rooms :
            /\ DOMAIN rooms'[r].players = DOMAIN rooms[r].players
            /\ \A k \in DOMAIN rooms[r].players :
                 /\ rooms'[r].players[k].x = rooms[r].players[k].x
                 /\ rooms'[r].players[k].y = rooms[r].players[k].y
                 /\ rooms'[r].players[k].vx = Scaled(rooms[r].players[k].vx, 9, 10)
                 /\ rooms'[r].players[k].vy = Scaled(rooms[r].players[k].vy, 9, 10)
            /\ ((\A k \in DOMAIN rooms[r].players :
                     Abs(rooms[r].puck.x + rooms[r].puck.vx - rooms[r].players[k].x)
                       >= (PUCK_RADIUS + PADDLE_RADIUS) * Unit)
                  /\ rooms[r].puck.x + rooms[r].puck.vx > 0
                  /\ rooms[r].puck.x + rooms[r].puck.vx < TABLE_WIDTH * Unit) =>
                 rooms'[r].puck.x = rooms[r].puck.x + rooms[r].puck.vx
            /\ \A d \in InRoom(r) :
                 \E m \in emitted' :
                   /\ m.to = d /\ m.ev = "state"
                   /\ m.payload.puck = rooms'[r].puck
                   /\ m.payload.scores = rooms'[r].scores
                   /\ m.payload.paddles =
                        [k \in DOMAIN rooms'[r].players |-> serializePaddle(rooms'[r].players[k])]
       /\ \A m \in emitted' :
            /\ m.ev = "state"
            /\ \E r \in DOMAIN rooms' :
                 m.to \in InRoom(r) /\ m.payload = buildState(rooms'[r], now')]_vars

\* C18 happens: a tick has just broadcast a room whose left paddle stands
\* where the input before the tick put it (the right edge of its half) and
\* whose puck that paddle has already pushed away.
C18_InputSeenByTick ==
  /\ variant = "A" /\ op.name = "tick"
  /\ \E m \in emitted :
       /\ m.ev = "state"
       /\ "left" \in DOMAIN m.payload.paddles
       /\ m.payload.paddles.left.x = MaxX("left")
       /\ m.payload.puck.vx > PUCK_START_SPEED

(***************************************************************************)
(* C19: the order of the sub-steps of one simulation step.                 *)
(***************************************************************************)

\* The puck of the simulating client c after this frame's integration,
\* friction, wall bounces, collisions with the paddles as the frame leaves
\* them, and speed cap.
ResolvedB(c) ==
  CapSpeed(checkPaddleCollision(
             checkPaddleCollision(MovePuckB(clients[c].puck),
                                  [x |-> Num(clients'[c].myPaddle.x),
                                   y |-> Num(clients'[c].myPaddle.y)]),
             clients'[c].opponentPaddle))

\* C19: a simulation step integrates the puck, applies friction, bounces it
\* off the walls, clamps the paddles, resolves the collision with the left
\* (own) and then the right (opponent) paddle, and only then looks for a
\* goal: the step counts a goal exactly when the puck it has so resolved is
\* past a goal line, and otherwise leaves the resolved puck.
C19_GoalDetectedLast ==
  [][/\ op'.name = "tick" =>
          \A r \in DOMAIN rooms :
            LET after == Collided(rooms[r]).puck
                past == \/ after.x <= -(PUCK_RADIUS * Unit)
                        \/ after.x >= (TABLE_WIDTH + PUCK_RADIUS) * Unit
            IN /\ ScoresOf(rooms'[r]) # ScoresOf(rooms[r]) <=> past
               /\ ~past => rooms'[r].puck = after
     /\ (/\ op'.name = "frame"
         /\ clients[op'.conn].myPlayerNumber = 1
         /\ sockets[op'.conn].roomId \in DOMAIN rooms)
        => LET r == sockets[op'.conn].roomId
               after == ResolvedB(op'.conn)
           IN /\ ScoresOf(rooms'[r]) # ScoresOf(rooms[r]) <=> PastGoalLine(after)
              /\ ~PastGoalLine(after) => clients'[op'.conn].puck = after
    ]_vars

\* A tick in which the collision with the right paddle is what carries the
\* puck over the right goal line, and the goal is counted in that tick.
C19_PushedOverTheLine ==
  /\ variant = "A" /\ op.name = "tick"
  /\ \E r \in DOMAIN rooms : rooms[r].scores.left = 1 /\ rooms[r].goalFlash.side = "left"
  /\ steps = 1

(***************************************************************************)
(* C20: what a collision resolution leaves between puck and paddle.        *)
(***************************************************************************)

DistSq(puck, px, py) == (puck.x - px) * (puck.x - px) + (puck.y - py) * (puck.y - py)

\* The centres are closer than reach and do not coincide.
Overlapping(puck, px, py, reach) ==
  /\ Abs(puck.x - px) < reach /\ Abs(puck.y - py) < reach
  /\ DistSq(puck, px, py) > 0 /\ DistSq(puck, px, py) < reach * reach

\* Every collision the step resolves leaves the centres at least
\* reach - slack apart.  The step is a tick of variant A (left paddle, then
\* right paddle, on the puck the left one left) or a frame of the
\* simulating client of variant B that found no goal (own paddle, then the
\* opponent's).
ResolvedApart(slack) ==
  /\ op'.name = "tick" =>
       \A r \in DOMAIN rooms :
         LET combined == (PUCK_RADIUS + PADDLE_RADIUS) * Unit
             players == rooms'[r].players
             p0 == MovePuck(rooms[r].puck)
             p1 == IF "left" \in DOMAIN players
                   THEN collideWithPaddle(p0, players.left) ELSE p0
         IN /\ ("left" \in DOMAIN players
                 /\ Overlapping(p0, players.left.x, players.left.y, combined))
               => DistSq(p1, players.left.x, players.left.y)
                    >= (combined - slack) * (combined - slack)
            /\ ("right" \in DOMAIN players
                 /\ Overlapping(p1, players.right.x, players.right.y, combined))
               => DistSq(collideWithPaddle(p1, players.right),
                         players.right.x, players.right.y)
                    >= (combined - slack) * (combined - slack)
  /\ (/\ op'.name = "frame"
      /\ clients[op'.conn].myPlayerNumber = 1
      /\ ~PastGoalLine(MovePuckB(clients[op'.conn].puck)))
     => LET reach == (PUCK_RADIUS_B + PADDLE_RADIUS_B) * Unit
            mine == clients'[op'.conn].myPaddle
            opponent == clients'[op'.conn].opponentPaddle
            p0 == MovePuckB(clients[op'.conn].puck)
            p1 == CollideAt(p0, mine.x, mine.y)
        IN /\ Overlapping(p0, mine.x, mine.y, reach)
              => DistSq(p1, mine.x, mine.y) >= (reach - slack) * (reach - slack)
           /\ (/\ opponent.x.t = "num" /\ opponent.y.t = "num"
               /\ Overlapping(p1, opponent.x.v, opponent.y.v, reach))
              => DistSq(CollideAt(p1, opponent.x.v, opponent.y.v),
                        opponent.x.v, opponent.y.v)
                   >= (reach - slack) * (reach - slack)

\* What the arithmetic of a resolution can lose: the unit normal and the
\* displacement are rounded, so the centres can end up short of the sum of
\* the radii by a rounding error.
Rounding == Unit \div 10

Coincident(puck, px, py) == puck.x = px /\ puck.y = py

\* C21: a collision check in which the centre of the puck and the centre of
\* the paddle coincide is no collision: it leaves the position and the
\* velocity of the puck as they were.  The checks are those of a tick of
\* variant A (left paddle, then right paddle) and of a frame of the
\* simulating client of variant B that found no goal (own paddle, then the
\* opponent's).
C21_CoincidentIsNoCollision ==
  [][/\ op'.name = "tick" =>
          \A r \in DOMAIN rooms :
            LET players == rooms'[r].players
                p0 == MovePuck(rooms[r].puck)
                p1 == IF "left" \in DOMAIN players
                      THEN collideWithPaddle(p0, players.left) ELSE p0
            IN /\ ("left" \in DOMAIN players
                    /\ Coincident(p0, players.left.x, players.left.y))
                  => p1 = p0
               /\ ("right" \in DOMAIN players
                    /\ Coincident(p1, players.right.x, players.right.y))
                  => collideWithPaddle(p1, players.right) = p1
     /\ (/\ op'.name = "frame"
         /\ clients[op'.conn].myPlayerNumber = 1
         /\ ~PastGoalLine(MovePuckB(clients[op'.conn].puck)))
        => LET mine == clients'[op'.conn].myPaddle
               opponent == clients'[op'.conn].opponentPaddle
               p0 == MovePuckB(clients[op'.conn].puck)
               p1 == CollideAt(p0, mine.x, mine.y)
           IN /\ Coincident(p0, mine.x, mine.y) => p1 = p0
              /\ (/\ opponent.x.t = "num" /\ opponent.y.t = "num"
                  /\ Coincident(p1, opponent.x.v, opponent.y.v))
                 => CollideAt(p1, opponent.x.v, opponent.y.v) = p1
    ]_vars

\* After a tick the puck lies at rest on the centre of the left paddle: the
\* tick's check of that paddle was one with coincident centres.
C21_RestsOnPaddleCentre ==
  /\ variant = "A" /\ op.name = "tick"
  /\ \E r \in DOMAIN rooms :
       /\ "left" \in DOMAIN rooms[r].players
       /\ Coincident(rooms[r].puck, rooms[r].players.left.x, rooms[r].players.left.y)
       /\ rooms[r].puck.vx = 0 /\ rooms[r].puck.vy = 0

(***************************************************************************)
(* C22: the direction of the puck after a goal.                            *)
(***************************************************************************)

\* C22: after a goal the puck is respawned at the centre of the table with
\* a horizontal velocity directed away from the side that conceded: when
\* left / player 1 has scored (through the right boundary) the new puck
\* does not move to the right, and when right / player 2 has scored it
\* does not move to the left.
C22_RespawnAwayFromConceder ==
  [][\A r \in DOMAIN rooms :
       /\ Credited(r, TRUE) => PuckOf(rooms'[r]).vx <= 0
       /\ Credited(r, FALSE) => PuckOf(rooms'[r]).vx >= 0]_vars

(***************************************************************************)
(* C23: the goal flash of a snapshot.                                      *)
(***************************************************************************)

\* The snapshots the step sends about room r: those of the state messages
\* to the sockets that are in its socket.io room and in no other, and that
\* of the joined message of a join-room for it.
SnapshotsOf(r) ==
  {m.payload : m \in {n \in emitted' : n.ev = "state" /\ sockets[n.to].joined = {r}}}
  \cup {m.payload.state : m \in {n \in emitted' : n.ev = "joined" /\ op'.roomId = r}}

\* The side that scored in the step, if one did.
ScorerIn(r) ==
  IF rooms'[r].scores.left > rooms[r].scores.left THEN "left"
  ELSE IF rooms'[r].scores.right > rooms[r].scores.right THEN "right"
  ELSE "none"

\* What a snapshot built at `time` has to show for a room whose last goal
\* was scored by `side` at time `at` (side "none": no goal yet).
FlashDue(side, at, time) ==
  IF side # "none" /\ time - at < GOAL_FLASH_MS THEN side ELSE "none"

\* C23: the goal flash of a snapshot is the side of the most recent scorer
\* if the snapshot is built less than 800 ms after that goal, and is null
\* if it is built at or after the expiry, or if no goal has been scored in
\* the room.  The room keeps the scorer and the time of its last goal in
\* goalFlash (until = time of the goal + 800): a goal sets it, nothing else
\* changes it, and a new room has none.
C23_GoalFlashWindow ==
  [][variant = "A" =>
       /\ \A r \in DOMAIN rooms' :
            \A snap \in SnapshotsOf(r) :
              /\ snap.goalFlash = FlashDue(rooms'[r].goalFlash.side,
                                           rooms'[r].goalFlash.until - GOAL_FLASH_MS, now')
              /\ ScoresOf(rooms'[r]) = <<0, 0>> => snap.goalFlash = "none"
       /\ \A r \in DOMAIN rooms' :
            IF r \in DOMAIN rooms
            THEN IF ScorerIn(r) # "none"
                 THEN rooms'[r].goalFlash =
                        [side |-> ScorerIn(r), until |-> now' + GOAL_FLASH_MS]
                 ELSE rooms'[r].goalFlash = rooms[r].goalFlash
            ELSE rooms'[r].goalFlash = NoFlash /\ ScoresOf(rooms'[r]) = <<0, 0>>
    ]_vars

\* The flash of a goal has expired, and the snapshot of this tick, built
\* at the very instant of the expiry, no longer shows it.
C23_FlashExpired ==
  /\ variant = "A" /\ op.name = "tick"
  /\ \E r \in DOMAIN rooms :
       /\ rooms[r].goalFlash.side # "none"
       /\ rooms[r].goalFlash.until = now
       /\ \E m \in emitted : m.ev = "state" /\ m.to \in InRoom(r)
                               /\ m.payload.goalFlash = "none"

(***************************************************************************)
(* C24: the speed of the puck in the variant with a speed cap.             *)
(***************************************************************************)

WithinMaxSpeed(puck) ==
  puck.vx * puck.vx + puck.vy * puck.vy <= (MAX_SPEED * Unit) * (MAX_SPEED * Unit)

\* C24: in variant B the speed of the puck is at most MAX_SPEED: every
\* puck the server stores, every puck it relays in a puck-sync message and
\* every puck it respawns after a goal is no faster than MAX_SPEED.
C24_SpeedCapped ==
  variant = "B" =>
    /\ \A r \in DOMAIN rooms : WithinMaxSpeed(rooms[r].gameState.puck)
    /\ \A m \in emitted :
         /\ m.ev = "puck-sync" => WithinMaxSpeed(m.payload)
         /\ m.ev = "goal" => WithinMaxSpeed(m.payload.puck)

(***************************************************************************)
(* C25: rooms are independent.                                             *)
(***************************************************************************)

\* C25: a join, a paddle input or a disconnect addressed to one room (and
\* whatever else a socket sends about its room) leaves every other room of
\* the registry as it was; a tick steps each room from that room's own
\* state alone, and it steps a room with an empty slot too, leaving the
\* empty slot empty.
C25_RoomsIndependent ==
  [][/\ op'.name # "tick" =>
          \A r \in DOMAIN rooms \ {op'.roomId} :
            r \in DOMAIN rooms' /\ rooms'[r] = rooms[r]
     /\ op'.name = "tick" =>
          \A r \in DOMAIN rooms :
            /\ r \in DOMAIN rooms'
            /\ \E angle \in Angles : rooms'[r] = updateRoom(rooms[r], now', angle)
            /\ DOMAIN rooms'[r].players = DOMAIN rooms[r].players
    ]_vars

\* A tick has stepped two rooms, one of them with a single occupied slot.
C25_TwoRoomsTicked ==
  /\ variant = "A" /\ op.name = "tick"
  /\ Cardinality(DOMAIN rooms) = 2
  /\ \E r \in DOMAIN rooms : Cardinality(DOMAIN rooms[r].players) = 1

(***************************************************************************)
(* C26: the waitingFor value of a snapshot.                                *)
(***************************************************************************)

\* The connections bound to room r after the step.
BoundAfter(r) == {c \in Conns : sockets'[c].connected /\ sockets'[c].roomId = r}

\* C26: the waitingFor value of every snapshot of a room is 2 minus the
\* number of connections bound to the room when the snapshot is built: 1
\* with one connection bound, 0 exactly while two distinct connections are.
C26_WaitingForCountsConnections ==
  [][variant = "A" =>
       \A r \in DOMAIN rooms' :
         \A snap \in SnapshotsOf(r) :
           snap.waitingFor = 2 - Cardinality(BoundAfter(r))]_vars

\* The same, for the steps after which every slot of the room belongs to a
\* connection of its own that is bound to the room.
C26_WhenSlotsAreSound ==
  [][variant = "A" =>
       \A r \in DOMAIN rooms' :
         (/\ \A s \in DOMAIN rooms'[r].players : rooms'[r].players[s].id \in BoundAfter(r)
          /\ \A s, t \in DOMAIN rooms'[r].players :
               rooms'[r].players[s].id = rooms'[r].players[t].id => s = t
          /\ \A c \in BoundAfter(r) :
               \E s \in DOMAIN rooms'[r].players : rooms'[r].players[s].id = c)
         => \A snap \in SnapshotsOf(r) :
              snap.waitingFor = 2 - Cardinality(BoundAfter(r))]_vars

(***************************************************************************)
(* C27: who receives the broadcasts of a room.                             *)
(***************************************************************************)

\* the events a server sends to the occupants of a room about the room
Notifications ==
  {"player-joined", "player-left",
   "game-start", "opponent-move", "puck-sync", "goal", "opponent-left"}

\* C27: a connection receives the broadcasts of the room it is bound to
\* and of no other: a notification sent in a step about a room reaches
\* only connections bound to that room, and the snapshot a tick sends to a
\* connection is that of the room the connection is bound to.  A
\* connection turned away with room-full, or one that has joined another
\* room since, gets nothing of the earlier room.
C27_BroadcastsToBoundOnly ==
  [][\A m \in emitted' :
       /\ m.ev \in Notifications => sockets'[m.to].roomId = op'.roomId
       /\ m.ev = "state" =>
            /\ sockets[m.to].roomId \in DOMAIN rooms'
            /\ m.payload = buildState(rooms'[sockets[m.to].roomId], now')]_vars

(***************************************************************************)
(* C28: where the puck of a broadcast snapshot lies.                       *)
(***************************************************************************)

\* The centres are at least reach apart.
Apart(puck, px, py, reach) ==
  \/ Abs(puck.x - px) >= reach
  \/ Abs(puck.y - py) >= reach
  \/ DistSq(puck, px, py) >= reach * reach

InVerticalBounds(puck) ==
  /\ puck.y >= PUCK_RADIUS * Unit
  /\ puck.y <= (TABLE_HEIGHT - PUCK_RADIUS) * Unit

\* The puck of the snapshot is at least reach - slack from every paddle of
\* the snapshot.
ClearOfPaddles(snap, slack) ==
  \A s \in DOMAIN snap.paddles :
    Apart(snap.puck, snap.paddles[s].x, snap.paddles[s].y,
          (PUCK_RADIUS + PADDLE_RADIUS) * Unit - slack)

\* the snapshots the last tick has broadcast
TickSnapshots ==
  IF variant = "A" /\ op.name = "tick"
  THEN {m.payload : m \in {n \in emitted : n.ev = "state"}}
  ELSE {}

\* C28: in every snapshot broadcast after a tick the puck lies within the
\* vertical bounds of the table (PUCK_RADIUS <= y <= TABLE_HEIGHT -
\* PUCK_RADIUS) and overlaps neither occupied paddle.
C28_PuckInBoundsAndClear ==
  \A snap \in TickSnapshots : InVerticalBounds(snap.puck) /\ ClearOfPaddles(snap, 0)

\* The parts of C28 on their own: the vertical bounds, and the paddles up
\* to the rounding of a resolution.
C28_VerticalBounds == \A snap \in TickSnapshots : InVerticalBounds(snap.puck)

C28_ClearUpToRounding == \A snap \in TickSnapshots : ClearOfPaddles(snap, Rounding)
====
